---- MODULE Spec2Model ----
(***************************************************************************)
(* Model of the transient (in-memory) caching layer of owls-cache:         *)
(* owls_cache/transient.py (named LRU caches behind the @cached decorator) *)
(* The named caches are OrderedDicts held in the module-level defaultdict  *)
(* _caches; their limits are held in the defaultdict _cache_limits.        *)
(***************************************************************************)
EXTENDS Integers, Sequences, FiniteSets, TLC

\* ---------------------------------------------------------------- bounds
\* Mapped-argument tuples (cache keys) are 1..MaxKey.
MaxKey == 3
\* The underlying computation returns None or one of 1..MaxVal.
MaxVal == 1
\* set_cache_limit is called with None or an integer in 0..MaxLimit.
MaxLimit == 2
\* With several named caches side by side, keys are 1..MaxNamesKey.
MaxNamesKey == 2
\* Concurrent memoized calls are made by threads 1..NumThreads.
NumThreads == 2
\* Persistently memoized calls have mapped arguments 1..MaxPersistentKey.
MaxPersistentKey == 2
\* A cache object is re-created (restart, reconnect) at most MaxRestarts times.
MaxRestarts == 1
\* The seed of hash() in a process is one of 0..MaxSeed.
MaxSeed == 1

\* ------------------------------------------------------ program constants
\* _cache_limits = defaultdict(lambda: 5)
DefaultLimit == 5
\* Python's None as a computed or looked-up result (distinct from 1..MaxVal).
None == 0
\* The name given to the decorator: cached(name, mapper).
Name == "f"
\* Named caches: the decorator's default name and a call-site name.
CacheNames == {Name, "abc"}
\* The `cache` keyword of a call: not passed, passed as None, or a name.
Absent == "<absent>"
NoCache == "<None>"
CacheKw == {Absent, NoCache, "abc"}

Keys == 1..MaxKey
NamesKeys == 1..MaxNamesKey
Threads == 1..NumThreads
Results == {None} \cup (1..MaxVal)
PersistentKeys == 1..MaxPersistentKey
\* A cache limit: None (no limit) is <<>>, the integer n is <<n>>.
Unbounded == <<>>
Bounded(n) == <<n>>
LimitChoices == {Unbounded} \cup {Bounded(n) : n \in 0..MaxLimit}

VARIABLES
    caches,   \* _caches: cache name -> OrderedDict (sequence of entries, oldest first)
    limits,   \* _cache_limits: cache name -> limit
    last,     \* the last operation performed and its outcome (observation only)
    recency,  \* cache name -> its keys by last use, read or written (observation only)
    threads,  \* thread -> where it is in wrapper() and its local variables
    backend,  \* a function decorated by transiently_cached: the decorator's
              \* arguments and the _cache of its TransientCachingBackend
    persistent_cache, \* _persistent_cache: the global persistent cache, or None
    store,    \* persistent cache -> what its directory / server holds (key -> payload)
    plast,    \* the last persistent operation and its outcome (observation only)
    written,  \* key -> the value last stored under it by set (observation only)
    instance, \* the cache object under test: how often it was re-created (gen)
              \* and the seed of hash() in the process that holds it
    io,       \* process -> where it is in set() / get() on the file system
    units     \* thread -> the persistent cache it set and saw last, and where it
              \* is in a test case (observation only)

tvars == <<caches, limits, last, recency, threads, backend>>
pvars == <<persistent_cache, store, plast, written, instance, io, units>>
vars == <<caches, limits, last, recency, threads, backend,
          persistent_cache, store, plast, written, instance, io, units>>

\* ------------------------------------------------------------ OrderedDict
Entry(k, v) == [key |-> k, value |-> v]

OdHas(od, k) == \E i \in 1..Len(od) : od[i].key = k

OdIndex(od, k) == CHOOSE i \in 1..Len(od) : od[i].key = k

OdKeys(od) == {od[i].key : i \in 1..Len(od)}

\* OrderedDict.get(key): the value, or None when the key is missing.
OdGet(od, k) == IF OdHas(od, k) THEN od[OdIndex(od, k)].value ELSE None

\* OrderedDict.pop(key) of a present key: the dict without it.
OdPop(od, k) == SelectSeq(od, LAMBDA e : e.key # k)

\* OrderedDict.__setitem__: a present key keeps its position, a new key goes last.
OdSetItem(od, k, v) ==
    IF OdHas(od, k)
    THEN [od EXCEPT ![OdIndex(od, k)] = Entry(k, v)]
    ELSE Append(od, Entry(k, v))

\* OrderedDict.popitem(last = False) of a non-empty dict: drops the oldest entry.
OdPopItem(od) == Tail(od)

\* ------------------------------------------------------------ defaultdict
\* _caches[name]: a missing name is inserted with an empty OrderedDict.
GrabCaches(cs, name) == IF name \in DOMAIN cs THEN cs ELSE cs @@ (name :> <<>>)

\* _cache_limits[name]: a missing name is inserted with the default limit.
GrabLimits(ls, name) ==
    IF name \in DOMAIN ls THEN ls ELSE ls @@ (name :> Bounded(DefaultLimit))

\* What a lookup would find, without inserting.
CacheOf(cs, name) == IF name \in DOMAIN cs THEN cs[name] ELSE <<>>
LimitOf(ls, name) == IF name \in DOMAIN ls THEN ls[name] ELSE Bounded(DefaultLimit)

\* ---------------------------------------------------------------- wrapper
\* The cache keyword is ignored unless it is None: every call uses Name.
CacheNameIgnoringKeyword(kw) == IF kw = NoCache THEN NoCache ELSE Name

\* cache_name = kwargs.get('cache', name)
CacheNameOf(kw) == IF kw = Absent THEN Name ELSE kw

\* The check for cache = None is missing.
NeverDisabled(cache_name) == FALSE

\* if cache_name is None: caching is disabled for the call
CachingDisabled(cache_name) == cache_name = NoCache

\* if cache_limit is not None
IsBoundedLimit(limit) == limit # Unbounded

\* if result is not None: the lookup counts as a hit
IsHit(result) == result # None

\* The hit leaves the entry where it is.
RefreshNoop(od, k) == od

\* cache[key] = cache.pop(key): the hit entry becomes the most recent one
Refresh(od, k) == OdSetItem(OdPop(od, k), k, OdGet(od, k))

\* `>` in place of `>=`: shrinks to the limit, not below it.
RECURSIVE ShrinkOffByOne(_, _)
ShrinkOffByOne(od, limit) ==
    IF limit = Unbounded THEN [od |-> od, raised |-> FALSE]
    ELSE IF ~(Len(od) > limit[1]) THEN [od |-> od, raised |-> FALSE]
    ELSE IF od = <<>> THEN [od |-> od, raised |-> TRUE]
    ELSE ShrinkOffByOne(OdPopItem(od), limit)

\* `if` in place of `while`: evicts at most one entry.
ShrinkOnce(od, limit) ==
    IF limit = Unbounded THEN [od |-> od, raised |-> FALSE]
    ELSE IF ~(Len(od) >= limit[1]) THEN [od |-> od, raised |-> FALSE]
    ELSE IF od = <<>> THEN [od |-> od, raised |-> TRUE]
    ELSE [od |-> OdPopItem(od), raised |-> FALSE]

\* The test for None is missing: None compares below every length, so the
\* loop runs until popitem fails on the emptied dict.
RECURSIVE ShrinkComparingNone(_, _)
ShrinkComparingNone(od, limit) ==
    IF limit # Unbounded /\ ~(Len(od) >= limit[1]) THEN [od |-> od, raised |-> FALSE]
    ELSE IF od = <<>> THEN [od |-> od, raised |-> TRUE]
    ELSE ShrinkComparingNone(OdPopItem(od), limit)

\* while len(cache) >= cache_limit: cache.popitem(last = False)
\* popitem on an empty OrderedDict raises KeyError.
RECURSIVE Shrink(_, _)
Shrink(od, limit) ==
    IF ~IsBoundedLimit(limit) THEN [od |-> od, raised |-> FALSE]
    ELSE IF ~(Len(od) >= limit[1]) THEN [od |-> od, raised |-> FALSE]
    ELSE IF od = <<>> THEN [od |-> od, raised |-> TRUE]
    ELSE Shrink(OdPopItem(od), limit)

\* The observation of one operation: what was called with which cache keyword
\* and key, whether f was invoked, whether the call raised, what it returned,
\* how many entries it evicted; tick alternates so that every operation is a step.
Outcome(o, kw, k, c, r, v, e) ==
    [op |-> o, kw |-> kw, key |-> k, computed |-> c, raised |-> r, ret |-> v,
     evicted |-> e, tick |-> 1 - last.tick]

\* The cache is shrunk before f is called.
ShrinkDone(cache, shrunk) == shrunk

\* The cache when f raised: result = f(*args, **kwargs) comes before the
\* while loop and the store, so an exception of f skips both.
ShrinkSkipped(cache, shrunk) == cache

\* The body of wrapper() for a function decorated with cached(name, mapper);
\* cache_name is kwargs.get('cache', name), k is mapper(*args), v is what the
\* function returns if the wrapper invokes it and raises whether it raises
\* instead, op names the function.
CallAs(op, cache_name, kw, k, v, raises) ==
    IF CachingDisabled(cache_name)
    THEN /\ last' = Outcome(op, kw, k, TRUE, raises, IF raises THEN None ELSE v, 0)
         /\ UNCHANGED <<caches, limits>>
    ELSE LET cs == GrabCaches(caches, cache_name)
             ls == GrabLimits(limits, cache_name)
             cache == cs[cache_name]
             cache_limit == ls[cache_name]
             result == OdGet(cache, k)
             shrunk == Shrink(cache, cache_limit)
             evicted == Len(cache) - Len(shrunk.od)
         IN  /\ limits' = ls
             /\ IF IsHit(result)
                THEN /\ caches' = [cs EXCEPT ![cache_name] = Refresh(cache, k)]
                     /\ last' = Outcome(op, kw, k, FALSE, FALSE, result, 0)
                ELSE IF raises
                THEN /\ caches' = [cs EXCEPT ![cache_name] = ShrinkSkipped(cache, shrunk.od)]
                     /\ last' = Outcome(op, kw, k, TRUE, TRUE, None,
                                        Len(cache) - Len(ShrinkSkipped(cache, shrunk.od)))
                ELSE IF shrunk.raised
                THEN /\ caches' = [cs EXCEPT ![cache_name] = shrunk.od]
                     /\ last' = Outcome(op, kw, k, TRUE, TRUE, None, evicted)
                ELSE /\ caches' = [cs EXCEPT ![cache_name] = OdSetItem(shrunk.od, k, v)]
                     /\ last' = Outcome(op, kw, k, TRUE, FALSE, v, evicted)

\* One memoized call wrapper(*args, cache = kw): k is mapper(*args), v is what
\* f(*args) returns if the wrapper invokes it.
Call(kw, k, v) == CallAs("call", CacheNameOf(kw), kw, k, v, FALSE)

\* set_cache_limit(name, limit)
SetCacheLimit(name, limit) ==
    /\ limits' = [n \in DOMAIN limits \cup {name} |->
                    IF n = name THEN limit ELSE limits[n]]
    /\ last' = Outcome("set_cache_limit", name, 0, FALSE, FALSE, None, 0)
    /\ UNCHANGED caches

\* Only the decorator's own cache is emptied: del _caches[name].
ClearOwnCacheOnly ==
    /\ caches' = [n \in DOMAIN caches \ {Name} |-> caches[n]]
    /\ last' = Outcome("clear", Absent, 0, FALSE, FALSE, None, 0)
    /\ UNCHANGED limits

\* clear_transient_caches(): _caches.clear()
ClearTransientCaches ==
    /\ caches' = <<>>
    /\ last' = Outcome("clear", Absent, 0, FALSE, FALSE, None, 0)
    /\ UNCHANGED limits

NoOutcome ==
    [op |-> "init", kw |-> Absent, key |-> 0, computed |-> FALSE, raised |-> FALSE,
     ret |-> None, evicted |-> 0, tick |-> 0]

\* A thread outside wrapper().
Idle ==
    [pc |-> "idle", key |-> 0, cache_limit |-> Unbounded, result |-> None,
     hit |-> FALSE, popped |-> None]

\* ------------------------------------------------ persistent layer, state
\* The persistent cache classes of owls_cache.persistent.caches, and a user's
\* subclass of PersistentCache that overrides key(name, key), get and set.
BaseCache == "PersistentCache"
FsCache == "FileSystemPersistentCache"
RedisCache == "RedisPersistentCache"
UserCache == "UserPersistentCache"
\* The file system backend of owls_cache.backends.fs.
FsBackend == "FileSystemPersistentCachingBackend"
ShippedCaches == {BaseCache, FsCache, RedisCache}
PersistentCaches == ShippedCaches \cup {UserCache}
\* The `cache` keyword of a persistently memoized call: not passed, None, or a
\* cache (one of the shipped ones, or the user's).
PersistentKw == {Absent, NoCache, RedisCache, UserCache}

\* The processes that use one file system cache directory at the same time.
Procs == {"writer", "reader"}
\* A process outside set() and get().
IoIdle == [pc |-> "idle", key |-> 0, value |-> None, old |-> <<>>, ret |-> None]

\* A thread that has not touched the persistent cache, outside every test case.
UnitIdle == [own |-> NoCache, seen |-> NoCache, phase |-> "outside"]

\* No persistent operation was made yet.
PNoOutcome ==
    [op |-> "init", cache |-> NoCache, kw |-> Absent, key |-> 0, computed |-> FALSE,
     fval |-> None, raised |-> "no", ret |-> None, calls |-> <<>>, fault |-> "no",
     tick |-> 0]

\* _persistent_cache = None; nothing is stored anywhere.
PInit ==
    /\ persistent_cache = NoCache
    /\ store = [c \in PersistentCaches \cup {FsBackend} |-> <<>>]
    /\ plast = PNoOutcome
    /\ written = <<>>
    /\ instance = [gen |-> 0, seed |-> 0]
    /\ io = [p \in Procs |-> IoIdle]
    /\ units = [t \in Threads |-> UnitIdle]

\* transiently_cached(optional = False, keyword = 'cache', default = True, size = 5)
DefaultSize == 5
Undecorated == [optional |-> FALSE, default |-> TRUE, size |-> DefaultSize, cache |-> <<>>]

\* The state after import: no cache and no limit exists yet.
Init ==
    /\ caches = <<>>
    /\ limits = <<>>
    /\ last = NoOutcome
    /\ recency = <<>>
    /\ threads = [t \in Threads |-> Idle]
    /\ backend = Undecorated
    /\ PInit

\* ------------------------------------------- the decorator's own cache
\* Calls without the cache keyword or with cache = None, limits set on Name.
AnyCall == \E kw \in {Absent, NoCache}, k \in Keys, v \in Results : Call(kw, k, v)
DoCall == AnyCall /\ UNCHANGED <<recency, threads>> /\ UNCHANGED pvars /\ UNCHANGED backend
DoSetCacheLimit ==
    /\ \E limit \in LimitChoices : SetCacheLimit(Name, limit)
    /\ UNCHANGED <<recency, threads>> /\ UNCHANGED pvars /\ UNCHANGED backend

DoClear ==
    ClearTransientCaches /\ recency' = <<>> /\ UNCHANGED threads /\ UNCHANGED pvars /\ UNCHANGED backend

Next == DoCall \/ DoSetCacheLimit \/ DoClear

Spec == Init /\ [][Next]_vars

\* -------------------------------------- a cache whose limit stays fixed
\* The limit of Name is configured once (or left to the default) before the
\* first call, as testing/test_transient.py does at import time.
InitFixed ==
    /\ caches = <<>>
    /\ limits \in {<<>>} \cup {(Name :> limit) : limit \in LimitChoices}
    /\ last = NoOutcome
    /\ recency = <<>>
    /\ threads = [t \in Threads |-> Idle]
    /\ backend = Undecorated
    /\ PInit

NextFixed == DoCall \/ DoClear

SpecFixed == InitFixed /\ [][NextFixed]_vars

\* ------------------------------------------ several named caches at once
\* Calls go to Name (no keyword), to "abc" (cache = 'abc') or bypass caching;
\* the computation returns 1; keys are 1..MaxNamesKey.
DoCallNames ==
    /\ \E kw \in CacheKw, k \in NamesKeys : Call(kw, k, 1)
    /\ UNCHANGED <<recency, threads>> /\ UNCHANGED pvars /\ UNCHANGED backend

DoSetCacheLimitNames ==
    /\ \E name \in CacheNames, limit \in LimitChoices : SetCacheLimit(name, limit)
    /\ UNCHANGED <<recency, threads>> /\ UNCHANGED pvars /\ UNCHANGED backend

NextNames == DoCallNames \/ DoSetCacheLimitNames \/ DoClear

SpecNames == Init /\ [][NextNames]_vars

\* ------------------------------------- two functions, one named cache
\* g is a second function decorated with cached('g', mapper), with the same
\* mapper as f; f returns None or 1..MaxVal, g returns None or GValue.
GValue == MaxVal + 1
GResults == {None, GValue}

DoCallF ==
    /\ \E kw \in {Absent, "abc"}, k \in NamesKeys, v \in Results : Call(kw, k, v)
    /\ UNCHANGED <<recency, threads>> /\ UNCHANGED pvars /\ UNCHANGED backend

\* wrapper(*args, cache = kw) of g
DoCallG ==
    \E kw \in {Absent, "abc"}, k \in NamesKeys, v \in GResults :
        /\ CallAs("call_g", IF kw = Absent THEN "g" ELSE kw, kw, k, v, FALSE)
        /\ UNCHANGED <<recency, threads>> /\ UNCHANGED pvars /\ UNCHANGED backend

NextShared == DoCallF \/ DoCallG

SpecShared == Init /\ [][NextShared]_vars

\* ---------------------------------------- the same, with recency of use
\* recency follows every call: the key of a call that hit or stored its result
\* becomes the most recently used one, evicted keys are forgotten.
RecencyOf(rs, name) == IF name \in DOMAIN rs THEN rs[name] ELSE <<>>
Touch(used, k) == SelectSeq(used, LAMBDA x : x # k) \o <<k>>
Forget(used, kept) == SelectSeq(used, LAMBDA x : x \in kept)
Used(used, od, k) ==
    IF OdHas(od, k) THEN Touch(Forget(used, OdKeys(od)), k)
    ELSE Forget(used, OdKeys(od))

DoCallUsed ==
    /\ AnyCall
    /\ recency' = [n \in DOMAIN caches' |->
                     IF last'.kw = NoCache \/ n # Name THEN recency[n]
                     ELSE Used(RecencyOf(recency, n), caches'[n], last'.key)]
    /\ UNCHANGED threads /\ UNCHANGED pvars /\ UNCHANGED backend

NextUsed == DoCallUsed \/ DoSetCacheLimit \/ DoClear

SpecUsed == Init /\ [][NextUsed]_vars

\* ------------------------------------------- concurrent memoized calls
\* Threads call wrapper() on the decorator's own cache at the same time. No
\* lock is taken anywhere in wrapper(); each OrderedDict method call is taken
\* as one atomic step, and a thread may be preempted between any two of them.
\* The limit of Name is an integer 1..MaxLimit, set before the threads start.
InitConc ==
    /\ caches = <<>>
    /\ limits \in {(Name :> Bounded(n)) : n \in 1..MaxLimit}
    /\ last = NoOutcome
    /\ recency = <<>>
    /\ threads = [t \in Threads |-> Idle]
    /\ backend = Undecorated
    /\ PInit

At(t, pc) == threads[t].pc = pc
Goto(t, pc) == [threads EXCEPT ![t].pc = pc]

\* cache = _caches[cache_name]; cache_limit = _cache_limits[cache_name]
Enter ==
    \E t \in Threads, k \in Keys :
        /\ /\ threads[t].pc \in {"idle", "returned", "KeyError"}
           /\ caches' = GrabCaches(caches, Name)
           /\ limits' = GrabLimits(limits, Name)
           /\ threads' = [threads EXCEPT ![t] =
                            [pc |-> "get", key |-> k, cache_limit |-> limits'[Name],
                             result |-> None, hit |-> FALSE, popped |-> None]]
        /\ UNCHANGED <<last, recency>> /\ UNCHANGED pvars /\ UNCHANGED backend

\* result = cache.get(key); if result is not None
Get ==
    \E t \in Threads :
        /\ /\ At(t, "get")
           /\ LET result == OdGet(caches[Name], threads[t].key) IN
              threads' = [threads EXCEPT ![t].result = result,
                                         ![t].hit = IsHit(result),
                                         ![t].pc = IF IsHit(result) THEN "pop" ELSE "compute"]
           /\ UNCHANGED <<caches, limits>>
        /\ UNCHANGED <<last, recency>> /\ UNCHANGED pvars /\ UNCHANGED backend

\* cache.pop(key), the right-hand side of cache[key] = cache.pop(key); a key
\* that is no longer there raises KeyError.
Pop ==
    \E t \in Threads :
        /\ /\ At(t, "pop")
           /\ IF OdHas(caches[Name], threads[t].key)
              THEN /\ caches' = [caches EXCEPT ![Name] = OdPop(@, threads[t].key)]
                   /\ threads' = [threads EXCEPT ![t].popped = OdGet(caches[Name], threads[t].key),
                                                 ![t].pc = "reinsert"]
              ELSE /\ threads' = Goto(t, "KeyError")
                   /\ UNCHANGED caches
           /\ UNCHANGED limits
        /\ UNCHANGED <<last, recency>> /\ UNCHANGED pvars /\ UNCHANGED backend

\* cache[key] = <the popped value>; return result
Reinsert ==
    \E t \in Threads :
        /\ /\ At(t, "reinsert")
           /\ caches' = [caches EXCEPT ![Name] = OdSetItem(@, threads[t].key, threads[t].popped)]
           /\ threads' = Goto(t, "returned")
           /\ UNCHANGED limits
        /\ UNCHANGED <<last, recency>> /\ UNCHANGED pvars /\ UNCHANGED backend

\* result = f(*args, **kwargs)
Compute ==
    \E t \in Threads, v \in Results :
        /\ /\ At(t, "compute")
           /\ threads' = [threads EXCEPT ![t].result = v, ![t].pc = "while"]
           /\ UNCHANGED <<caches, limits>>
        /\ UNCHANGED <<last, recency>> /\ UNCHANGED pvars /\ UNCHANGED backend

\* if cache_limit is not None: while len(cache) >= cache_limit
While ==
    \E t \in Threads :
        /\ /\ At(t, "while")
           /\ LET limit == threads[t].cache_limit IN
              threads' = Goto(t, IF IsBoundedLimit(limit) /\ Len(caches[Name]) >= limit[1]
                                 THEN "popitem" ELSE "store")
           /\ UNCHANGED <<caches, limits>>
        /\ UNCHANGED <<last, recency>> /\ UNCHANGED pvars /\ UNCHANGED backend

\* cache.popitem(last = False); an empty OrderedDict raises KeyError.
PopItem ==
    \E t \in Threads :
        /\ /\ At(t, "popitem")
           /\ IF caches[Name] = <<>>
              THEN /\ threads' = Goto(t, "KeyError")
                   /\ UNCHANGED caches
              ELSE /\ caches' = [caches EXCEPT ![Name] = OdPopItem(@)]
                   /\ threads' = Goto(t, "while")
           /\ UNCHANGED limits
        /\ UNCHANGED <<last, recency>> /\ UNCHANGED pvars /\ UNCHANGED backend

\* cache[key] = result; return result
Store ==
    \E t \in Threads :
        /\ /\ At(t, "store")
           /\ caches' = [caches EXCEPT ![Name] = OdSetItem(@, threads[t].key, threads[t].result)]
           /\ threads' = Goto(t, "returned")
           /\ UNCHANGED limits
        /\ UNCHANGED <<last, recency>> /\ UNCHANGED pvars /\ UNCHANGED backend

NextConc ==
    Enter \/ Get \/ Pop \/ Reinsert \/ Compute \/ While \/ PopItem \/ Store

SpecConc == InitConc /\ [][NextConc]_vars

\* ======================================================= persistent layer
\* owls_cache/persistent: the @cached decorator of persistent/__init__.py and
\* the caches of persistent/caches.

\* ----------------------------------------------------------------- pickle
\* pickle.dumps(value): a payload that holds the value behind a pickle header.
Dumps(v) == <<"pickle", v>>
\* Payloads that are no pickle: other bytes, no bytes, a pickle cut short.
Empty == <<>>
Partial == <<"pickle">>
Damaged == {<<"garbage">>, Empty, Partial}
\* pickle.loads(payload) raises on these ...
Unpicklable(p) == Len(p) # 2 \/ p[1] # "pickle"
\* ... and returns the value otherwise.
Loads(p) == p[2]

\* What a method call produces: a value, or an exception.
Ok(v) == [raised |-> "no", value |-> v]
Raise(e) == [raised |-> e, value |-> None]

\* -------------------------------------------------------------------- key
\* Positional parameters, self excluded, of the key methods.
\* PersistentCache.key(self, name, args, kwargs)
BaseKeyParams == 3
\* FileSystemPersistentCache.key(self, name, key)
FsKeyParams == 2
\* RedisPersistentCache.key(self, name, args, kwargs)
RedisKeyParams == 3
\* Strings that take part in formatting are sequences of tokens: '' is <<>>.
\* The prefix argument None (distinct from every string):
NoPrefix == <<NoCache>>

\* self._prefix: '' if prefix is None, else '{0}-'.format(prefix)
FormatPrefix(prefix) == IF prefix = NoPrefix THEN <<>> ELSE prefix \o <<"-">>

\* RedisPersistentCache(prefix = 'testing'): self._prefix
Prefix == FormatPrefix(<<"testing">>)

\* hash(key) of a string in a process: it depends on the seed of the process.
Hash(key, seed) == <<"hash", key, seed>>

\* A call with the wrong number of positional arguments raises TypeError.
\* '{0}_{1}'.format(name, hash(repr(args) + repr(kwargs)))
BaseKey(argv) ==
    IF Len(argv) # BaseKeyParams THEN Raise("TypeError")
    ELSE Ok(<<argv[1], Hash(<<argv[2], argv[3]>>, instance.seed)>>)

\* join(self._path, '{0}.pickle'.format(super().key(name, key)))
FsKey(argv) ==
    IF Len(argv) # FsKeyParams THEN Raise("TypeError")
    ELSE LET base == BaseKey(<<argv[1], argv[2]>>) IN
         IF base.raised # "no" THEN base ELSE Ok(<<"path", base.value>>)

\* '{0}{1}({2}{3})'.format(self._prefix, name, key_args, key_kwargs)
RedisKeyBy(prefix, argv) ==
    IF Len(argv) # RedisKeyParams THEN Raise("TypeError")
    ELSE Ok(<<prefix, argv[1], argv[2], argv[3]>>)

\* key() of the cache of testing/test_persistent.py
RedisKey(argv) == RedisKeyBy(Prefix, argv)

\* A subclass written against the wrapper's call cache.key(name, argument_key).
UserKey(argv) ==
    IF Len(argv) # 2 THEN Raise("TypeError") ELSE Ok(argv[2])

KeyOf(cache, argv) ==
    CASE cache = BaseCache -> BaseKey(argv)
      [] cache = FsCache -> FsKey(argv)
      [] cache = RedisCache -> RedisKey(argv)
      [] cache = UserCache -> UserKey(argv)

\* ---------------------------------------------------------------- get, set
\* PersistentCache.get / set: raise RuntimeError('abstract method')
\* FileSystemPersistentCache.get: None unless the file exists, else load(f)
FsGet(files, key) ==
    IF key \notin DOMAIN files THEN Ok(None)
    ELSE IF Unpicklable(files[key]) THEN Raise("UnpicklingError")
    ELSE Ok(Loads(files[key]))

\* RedisPersistentCache.get: None if the client returns nothing or b'', else loads
RedisGet(db, key, down) ==
    IF down THEN Raise("ConnectionError")
    ELSE IF key \notin DOMAIN db THEN Ok(None)
    ELSE IF db[key] = Empty THEN Ok(None)
    ELSE IF Unpicklable(db[key]) THEN Raise("UnpicklingError")
    ELSE Ok(Loads(db[key]))

\* cache.get(key) on what the cache's directory or server holds; down says
\* that the server cannot be reached.
GetOf(cache, st, key, down) ==
    CASE cache = BaseCache -> Raise("RuntimeError")
      [] cache = FsCache -> FsGet(st, key)
      [] cache = RedisCache -> RedisGet(st, key, down)
      [] cache = UserCache -> RedisGet(st, key, down)

\* What is stored under key after value was written.
Put(st, key, payload) ==
    [k \in DOMAIN st \cup {key} |-> IF k = key THEN payload ELSE st[k]]

\* cache.set(key, value): the outcome and what is held afterwards.
\* fs: with open(key, 'wb') as f: dump(value, f); redis: client.set(key, dumps(value))
SetOf(cache, st, key, value, down) ==
    IF cache = BaseCache THEN [raised |-> "RuntimeError", store |-> st]
    ELSE IF cache # FsCache /\ down THEN [raised |-> "ConnectionError", store |-> st]
    ELSE [raised |-> "no", store |-> Put(st, key, Dumps(value))]

\* ---------------------------------------------------------------- wrapper
\* Without a keyword and a global cache, a file system cache is created.
PersistentCacheOfDefaultFs(kw, global) ==
    IF kw # Absent THEN kw ELSE IF global = NoCache THEN FsCache ELSE global

\* The global cache wins over the keyword.
PersistentCacheOfGlobalFirst(kw, global) ==
    IF global # NoCache THEN global ELSE IF kw = Absent THEN NoCache ELSE kw

\* cache = kwargs.get('cache', get_persistent_cache())
PersistentCacheOf(kw, global) == IF kw = Absent THEN global ELSE kw

\* A failing get is taken for a miss: try: ... except: result = None
LookupMaskingErrors(cache, st, key, down) ==
    LET got == GetOf(cache, st, key, down) IN
    IF got.raised # "no" THEN Ok(None) ELSE got

\* result = cache.get(key)
Lookup(cache, st, key, down) == GetOf(cache, st, key, down)

\* The faults of the server during one call: none, or it is down when get / set
\* is called.
Faults == {"no", "get", "set"}

\* The observation of one persistent operation: the cache it used, the keyword
\* and key, what f returns, whether f was invoked, the exception that left the
\* operation ("no" for none), the returned value, the methods of the cache
\* that were called, the fault that one of these calls met.
POutcome(o, c, kw, k, v, comp, r, ret, calls, fault) ==
    [op |-> o, cache |-> c, kw |-> kw, key |-> k, fval |-> v, computed |-> comp,
     raised |-> r, ret |-> ret, calls |-> calls,
     fault |-> IF (\E i \in 1..Len(calls) : calls[i] = fault) \/ (comp /\ fault = "compute")
               THEN fault ELSE "no",
     tick |-> 1 - plast.tick]

\* One persistently memoized call wrapper(*args, cache = kw): k is
\* mapper(*args), v is what f(*args) returns if the wrapper invokes it; fault
\* names the step that raises: get or set of the cache, or f ("compute").
PersistentCall(kw, k, v, fault) ==
    LET cache == PersistentCacheOf(kw, persistent_cache)
        Seen(c, r, ret, calls) == POutcome("call", cache, kw, k, v, c, r, ret, calls, fault)
    IN
    /\ UNCHANGED persistent_cache
    /\ IF cache = NoCache
       THEN /\ plast' = IF fault = "compute" THEN Seen(TRUE, "Error", None, <<>>)
                       ELSE Seen(TRUE, "no", v, <<>>)
            /\ UNCHANGED store
       ELSE LET key == KeyOf(cache, <<Name, k>>) IN
       IF key.raised # "no"
       THEN /\ plast' = Seen(FALSE, key.raised, None, <<"key">>)
            /\ UNCHANGED store
       ELSE LET got == Lookup(cache, store[cache], key.value, fault = "get") IN
       IF got.raised # "no"
       THEN /\ plast' = Seen(FALSE, got.raised, None, <<"key", "get">>)
            /\ UNCHANGED store
       ELSE IF got.value # None
       THEN /\ plast' = Seen(FALSE, "no", got.value, <<"key", "get">>)
            /\ UNCHANGED store
       ELSE IF fault = "compute"
       THEN /\ plast' = Seen(TRUE, "Error", None, <<"key", "get">>)
            /\ UNCHANGED store
       ELSE LET put == SetOf(cache, store[cache], key.value, v, fault = "set") IN
       IF put.raised # "no"
       THEN /\ plast' = Seen(TRUE, put.raised, None, <<"key", "get", "set">>)
            /\ UNCHANGED store
       ELSE /\ plast' = Seen(TRUE, "no", v, <<"key", "get", "set">>)
            /\ store' = [store EXCEPT ![cache] = put.store]

\* set_persistent_cache(cache)
SetPersistentCache(cache) ==
    /\ persistent_cache' = cache
    /\ plast' = POutcome("set_persistent_cache", cache, Absent, 0, None, FALSE,
                         "no", None, <<>>, "no")
    /\ UNCHANGED store

DoPersistentCall ==
    /\ \E kw \in PersistentKw, k \in PersistentKeys, v \in Results, fault \in Faults :
          PersistentCall(kw, k, v, fault)
    /\ UNCHANGED <<written, instance, io, units>> /\ UNCHANGED tvars

DoSetPersistentCache ==
    /\ \E cache \in PersistentCaches \cup {NoCache} : SetPersistentCache(cache)
    /\ UNCHANGED <<written, instance, io, units>> /\ UNCHANGED tvars

NextPersistent == DoPersistentCall \/ DoSetPersistentCache

SpecPersistent == Init /\ [][NextPersistent]_vars

\* ------------------------------------------- a cache object used directly
\* set and get called with keys 1..MaxPersistentKey (strings, the documented
\* type of a key) on a FileSystemPersistentCache, a RedisPersistentCache or a
\* FileSystemPersistentCachingBackend.

\* FileSystemPersistentCachingBackend._path_for_key:
\* join(self._path, '{0}.pickle'.format(hash(key)))
PathForKey(key, seed) == <<"path", Hash(key, seed)>>

\* Where a cache object keeps the payload of a key: the two caches use the
\* key itself (a path, a Redis key), the backend the path it derives from it.
PlaceOf(cache, key, seed) ==
    IF cache = FsBackend THEN PathForKey(key, seed) ELSE key

\* FileSystemPersistentCachingBackend.get: None unless the file exists; a
\* failing load is caught and gives None.
BackendGet(files, key, seed) ==
    LET key_path == PathForKey(key, seed) IN
    IF key_path \notin DOMAIN files THEN Ok(None)
    ELSE IF Unpicklable(files[key_path]) THEN Ok(None)
    ELSE Ok(Loads(files[key_path]))

InitStore ==
    /\ caches = <<>>
    /\ limits = <<>>
    /\ last = NoOutcome
    /\ recency = <<>>
    /\ threads = [t \in Threads |-> Idle]
    /\ backend = Undecorated
    /\ persistent_cache \in {FsCache, RedisCache, FsBackend}
    /\ store = [c \in PersistentCaches \cup {FsBackend} |-> <<>>]
    /\ plast = PNoOutcome
    /\ written = <<>>
    /\ instance = [gen |-> 0, seed |-> 0]
    /\ io = [p \in Procs |-> IoIdle]
    /\ units = [t \in Threads |-> UnitIdle]

\* The key a cache object derives for the call f(*k) in the running process:
\* key(name, args, kwargs) of PersistentCache and RedisPersistentCache,
\* key(name, key) of FileSystemPersistentCache, _path_for_key(key) of the backend.
DerivedKey(cache, k) ==
    CASE cache = BaseCache -> BaseKey(<<Name, k, <<>>>>)
      [] cache = FsCache -> FsKey(<<Name, k>>)
      [] cache = RedisCache -> RedisKey(<<Name, k, <<>>>>)
      [] cache = FsBackend -> Ok(PathForKey(k, instance.seed))

DoStoreKey ==
    \E cache \in ShippedCaches \cup {FsBackend}, k \in PersistentKeys :
        /\ LET derived == DerivedKey(cache, k) IN
           /\ plast' = POutcome("key", cache, Absent, k, None, FALSE, derived.raised,
                                derived.value, <<"key">>, "no")
           /\ UNCHANGED <<persistent_cache, store, written, instance>>
        /\ UNCHANGED <<io, units>> /\ UNCHANGED tvars

\* cache.set(key, value)
DoStoreSet ==
    \E k \in PersistentKeys, v \in Results :
        /\ LET cache == persistent_cache
               put == SetOf(cache, store[cache], PlaceOf(cache, k, instance.seed), v, FALSE)
           IN  /\ store' = [store EXCEPT ![cache] = put.store]
               /\ plast' = POutcome("set", cache, Absent, k, v, FALSE, put.raised, None,
                                    <<"set">>, "no")
               /\ written' = [x \in DOMAIN written \cup {k} |->
                                 IF x = k THEN [value |-> v, gen |-> instance.gen]
                                 ELSE written[x]]
               /\ UNCHANGED <<persistent_cache, instance>>
        /\ UNCHANGED <<io, units>> /\ UNCHANGED tvars

\* cache.get(key)
DoStoreGet ==
    \E k \in PersistentKeys :
        /\ LET cache == persistent_cache
               got == IF cache = FsBackend THEN BackendGet(store[cache], k, instance.seed)
                      ELSE GetOf(cache, store[cache], k, FALSE)
           IN  /\ plast' = POutcome("get", cache, Absent, k, None, FALSE, got.raised,
                                    got.value, <<"get">>, "no")
               /\ UNCHANGED <<persistent_cache, store, written, instance>>
        /\ UNCHANGED <<io, units>> /\ UNCHANGED tvars

\* The payload stored under a key is replaced, behind the cache's back, by
\* bytes that load / loads cannot read.
DoDamage ==
    \E k \in PersistentKeys, p \in Damaged :
        /\ LET cache == persistent_cache
               place == PlaceOf(cache, k, instance.seed)
           IN
           /\ place \in DOMAIN store[cache]
           /\ store' = [store EXCEPT ![cache] = [@ EXCEPT ![place] = p]]
           /\ written' = [x \in DOMAIN written \ {k} |-> written[x]]
           /\ plast' = POutcome("damage", cache, Absent, k, None, FALSE, "no", None,
                                <<>>, "no")
           /\ UNCHANGED <<persistent_cache, instance>>
        /\ UNCHANGED <<io, units>> /\ UNCHANGED tvars

\* A new cache object on the same directory (after a restart of the process,
\* with the seed that hash() has in the new process) or a new client for the
\* same server (__setstate__).
DoReopen ==
    \E seed \in 0..MaxSeed :
        /\ /\ instance.gen < MaxRestarts
           /\ instance' = [gen |-> instance.gen + 1, seed |-> seed]
           /\ UNCHANGED <<persistent_cache, store, plast, written>>
        /\ UNCHANGED <<io, units>> /\ UNCHANGED tvars

NextStore == DoStoreSet \/ DoStoreGet \/ DoDamage \/ DoReopen \/ DoStoreKey

SpecStore == InitStore /\ [][NextStore]_vars

\* ------------------------------- set and get on one directory, concurrently
\* A writer process in FileSystemPersistentCache.set and a reader process in
\* FileSystemPersistentCache.get, one step per system call on the file.
InitFsIo ==
    /\ caches = <<>>
    /\ limits = <<>>
    /\ last = NoOutcome
    /\ recency = <<>>
    /\ threads = [t \in Threads |-> Idle]
    /\ backend = Undecorated
    /\ persistent_cache = FsCache
    /\ store = [c \in PersistentCaches \cup {FsBackend} |-> <<>>]
    /\ plast = PNoOutcome
    /\ written = <<>>
    /\ instance = [gen |-> 0, seed |-> 0]
    /\ io = [p \in Procs |-> IoIdle]
    /\ units = [t \in Threads |-> UnitIdle]

\* What the file of key k holds; <<>> also when there is no such file.
FileOf(files, k) == IF k \in DOMAIN files THEN files[k] ELSE Empty

FsFrame ==
    UNCHANGED <<persistent_cache, plast, written, instance, units>> /\ UNCHANGED tvars

\* open(key, 'wb'): the file is created, or cut to length zero.
Open ==
    \E k \in PersistentKeys, v \in Results :
        /\ /\ io["writer"].pc = "idle"
           /\ store' = [store EXCEPT ![FsCache] = Put(@, k, Empty)]
           /\ io' = [io EXCEPT !["writer"] =
                       [pc |-> "opened", key |-> k, value |-> v,
                        old |-> FileOf(store[FsCache], k), ret |-> None]]
        /\ FsFrame

\* dump(value, f): the buffer is flushed before the pickle is complete.
Flush ==
    /\ /\ io["writer"].pc = "opened"
       /\ store' = [store EXCEPT ![FsCache] = Put(@, io["writer"].key, Partial)]
       /\ io' = [io EXCEPT !["writer"].pc = "flushed"]
    /\ FsFrame

\* dump returns and the with block closes the file: the pickle is complete.
Close ==
    /\ /\ io["writer"].pc \in {"opened", "flushed"}
       /\ store' = [store EXCEPT ![FsCache] =
                       Put(@, io["writer"].key, Dumps(io["writer"].value))]
       /\ io' = [io EXCEPT !["writer"].pc = "idle"]
    /\ FsFrame

\* if not exists(key) or not isfile(key): return None
Exists ==
    \E k \in PersistentKeys :
        /\ /\ io["reader"].pc \in {"idle", "returned", "raised"}
           /\ io' = [io EXCEPT !["reader"] =
                       [pc |-> IF k \in DOMAIN store[FsCache] THEN "load" ELSE "returned",
                        key |-> k, value |-> None, old |-> <<>>, ret |-> None]]
           /\ UNCHANGED store
        /\ FsFrame

\* with open(key, 'rb') as f: return load(f)
Load ==
    /\ /\ io["reader"].pc = "load"
       /\ LET got == FsGet(store[FsCache], io["reader"].key) IN
          io' = [io EXCEPT !["reader"].pc = IF got.raised # "no" THEN "raised" ELSE "returned",
                           !["reader"].ret = got.value]
       /\ UNCHANGED store
    /\ FsFrame

NextFsIo == Open \/ Flush \/ Close \/ Exists \/ Load

SpecFsIo == InitFsIo /\ [][NextFsIo]_vars

UnitFrame == UNCHANGED <<written, instance, io>> /\ UNCHANGED tvars

\* ------------------------------------- the global cache and several threads
\* Threads that call set_persistent_cache, get_persistent_cache and a
\* persistently memoized function; each remembers what it set (own) and what
\* it found in force (seen).
UnitSet ==
    \E t \in Threads, cache \in {NoCache, FsCache, UserCache} :
        /\ /\ SetPersistentCache(cache)
           /\ units' = [units EXCEPT ![t].own = cache, ![t].seen = cache]
        /\ UnitFrame

\* get_persistent_cache(): return _persistent_cache
UnitGet ==
    \E t \in Threads :
        /\ /\ units' = [units EXCEPT ![t].seen = persistent_cache]
           /\ plast' = POutcome("get_persistent_cache", persistent_cache, Absent, 0, None,
                                FALSE, "no", None, <<>>, "no")
           /\ UNCHANGED <<persistent_cache, store>>
        /\ UnitFrame

\* A memoized call without the cache keyword: it uses get_persistent_cache().
UnitCall ==
    \E t \in Threads, k \in PersistentKeys, v \in 1..MaxVal :
        /\ /\ PersistentCall(Absent, k, v, "no")
           /\ units' = [units EXCEPT ![t].seen = plast'.cache]
        /\ UnitFrame

NextUnits == UnitSet \/ UnitGet \/ UnitCall

SpecUnits == Init /\ [][NextUnits]_vars

\* ------------------------------------------------- a test case as a region
\* testing/test_persistent.py: setUp associates a cache, the test makes
\* memoized calls, tearDown empties the cache and then unsets the global cache.
\* unittest runs tearDown after the test whether the test raised or not; an
\* exception in tearDown ends tearDown. The runner is thread 1.
Runner == 1

\* setUp: set_persistent_cache(fs_backend) / set_persistent_cache(redis_backend)
DoSetUp ==
    \E cache \in {FsCache, RedisCache} :
        /\ /\ units[Runner].phase \in {"outside", "left"}
           /\ SetPersistentCache(cache)
           /\ units' = [units EXCEPT ![Runner] = [own |-> cache, seen |-> cache, phase |-> "inside"]]
        /\ UnitFrame

\* test: a memoized call; an exception ends the test.
DoTestCall ==
    \E kw \in PersistentKw, k \in PersistentKeys, v \in Results, fault \in Faults :
        /\ /\ units[Runner].phase = "inside"
           /\ PersistentCall(kw, k, v, fault)
           /\ units' = [units EXCEPT ![Runner].phase =
                           IF plast'.raised # "no" THEN "teardown" ELSE "inside"]
        /\ UnitFrame

\* test: the test method returns.
DoTestEnd ==
    /\ /\ units[Runner].phase = "inside"
       /\ units' = [units EXCEPT ![Runner].phase = "teardown"]
       /\ UNCHANGED <<persistent_cache, store, plast>>
    /\ UnitFrame

\* tearDown: rmtree(fs_backend._path); makedirs(...) or _client.flushdb(), then
\* set_persistent_cache(None). failed: the first statements raise (the server
\* is down, the directory cannot be removed).
DoTearDown ==
    \E failed \in BOOLEAN :
        /\ /\ units[Runner].phase = "teardown"
           /\ IF failed
              THEN /\ plast' = POutcome("tearDown", persistent_cache, Absent, 0, None, FALSE,
                                        "ConnectionError", None, <<>>, "no")
                   /\ units' = [units EXCEPT ![Runner].phase = "left"]
                   /\ UNCHANGED <<persistent_cache, store>>
              ELSE /\ persistent_cache' = NoCache
                   /\ store' = [store EXCEPT ![persistent_cache] = <<>>]
                   /\ plast' = POutcome("tearDown", NoCache, Absent, 0, None, FALSE,
                                        "no", None, <<>>, "no")
                   /\ units' = [units EXCEPT ![Runner] = [own |-> NoCache, seen |-> NoCache,
                                                          phase |-> "left"]]
        /\ UnitFrame

NextRegion == DoSetUp \/ DoTestCall \/ DoTestEnd \/ DoTearDown

SpecRegion == Init /\ [][NextRegion]_vars

\* ---------------------------------------- a Redis cache handed to a worker
\* A RedisPersistentCache is constructed, used, and re-created from its
\* pickled state (loads(dumps(cache))) in the process that receives it.
\* `instance` is the object: _args, _kwargs, _prefix, _client, the process that
\* holds it (gen), and the keyword arguments it was constructed with (given).

\* Keyword arguments of the constructor: a function from names to values.
Without(kwargs, name) == [n \in DOMAIN kwargs \ {name} |-> kwargs[n]]

\* redis.StrictRedis(*args, **kwargs) created in process proc: a connection
\* that lives in that process.
StrictRedis(args, kwargs, proc) == [args |-> args, kwargs |-> kwargs, proc |-> proc]

\* RedisPersistentCache.__init__(*args, **kwargs)
RedisInit(args, kwargs, proc) ==
    LET prefix == IF "prefix" \in DOMAIN kwargs THEN kwargs["prefix"] ELSE NoPrefix
        masked == Without(kwargs, "prefix")
    IN  [args |-> args, kwargs |-> masked, prefix |-> FormatPrefix(prefix),
         client |-> StrictRedis(args, masked, proc)]

\* __getstate__
GetState(self) == <<self.args, self.kwargs, self.prefix>>

\* __setstate__ runs the constructor again, with the stored prefix as prefix.
SetStateThroughInit(state, proc) ==
    RedisInit(state[1], state[2] @@ ("prefix" :> state[3]), proc)

\* __setstate__
SetState(state, proc) ==
    [args |-> state[1], kwargs |-> state[2], prefix |-> state[3],
     client |-> StrictRedis(state[1], state[2], proc)]

\* The constructor arguments of the model: no positional arguments, a host,
\* and prefix absent, None, '' or a name.
PrefixChoices == {NoPrefix, <<>>, <<"testing">>}
KwargsChoices ==
    LET hosts == {("host" :> h) : h \in {"localhost", "cachehost"}} IN
    hosts \cup {h @@ ("prefix" :> x) : h \in hosts, x \in PrefixChoices}

\* The object as a whole: the cache, the process holding it, what it was given.
Held(self, proc, given) ==
    [args |-> self.args, kwargs |-> self.kwargs, prefix |-> self.prefix,
     client |-> self.client, gen |-> proc, seed |-> 0, given |-> given]

InitPickle ==
    /\ caches = <<>>
    /\ limits = <<>>
    /\ last = NoOutcome
    /\ recency = <<>>
    /\ threads = [t \in Threads |-> Idle]
    /\ backend = Undecorated
    /\ persistent_cache = RedisCache
    /\ store = [c \in PersistentCaches \cup {FsBackend} |-> <<>>]
    /\ plast = PNoOutcome
    /\ written = <<>>
    /\ instance \in {Held(RedisInit(<<>>, kwargs, 0), 0, kwargs) : kwargs \in KwargsChoices}
    /\ io = [p \in Procs |-> IoIdle]
    /\ units = [t \in Threads |-> UnitIdle]

\* A client serves only the process that created it.
Down(self) == self.client.proc # self.gen

PickleFrame == UNCHANGED <<io, units>> /\ UNCHANGED tvars

\* unpickled = loads(dumps(cache)), in the next process
DoUnpickle ==
    /\ /\ instance.gen < MaxRestarts
       /\ instance' = Held(SetState(GetState(instance), instance.gen + 1),
                           instance.gen + 1, instance.given)
       /\ UNCHANGED <<persistent_cache, store, plast, written>>
    /\ PickleFrame

\* cache.key(name, args, kwargs)
DoPickleKey ==
    \E k \in PersistentKeys :
        /\ /\ plast' = POutcome("key", RedisCache, Absent, k, None, FALSE, "no",
                                RedisKeyBy(instance.prefix, <<Name, k, <<>>>>).value,
                                <<"key">>, "no")
           /\ UNCHANGED <<persistent_cache, store, written, instance>>
        /\ PickleFrame

\* cache.set(key, value)
DoPickleSet ==
    \E k \in PersistentKeys, v \in Results :
        /\ LET put == SetOf(RedisCache, store[RedisCache], k, v, Down(instance)) IN
           /\ store' = [store EXCEPT ![RedisCache] = put.store]
           /\ plast' = POutcome("set", RedisCache, Absent, k, v, FALSE, put.raised, None,
                                <<"set">>, "no")
           /\ UNCHANGED <<persistent_cache, written, instance>>
        /\ PickleFrame

\* cache.get(key)
DoPickleGet ==
    \E k \in PersistentKeys :
        /\ LET got == GetOf(RedisCache, store[RedisCache], k, Down(instance)) IN
           /\ plast' = POutcome("get", RedisCache, Absent, k, None, FALSE, got.raised,
                                got.value, <<"get">>, "no")
           /\ UNCHANGED <<persistent_cache, store, written, instance>>
        /\ PickleFrame

NextPickle == DoUnpickle \/ DoPickleKey \/ DoPickleSet \/ DoPickleGet

SpecPickle == InitPickle /\ [][NextPickle]_vars

\* ------------------------------------------ a computation that raises
\* Memoized calls of f, transient (default cache, limit fixed before the
\* first call) and persistent (cache = a cache object whose key accepts the
\* wrapper's call); f returns 1 or raises.
DoCallOrRaise ==
    \E k \in NamesKeys, raises \in BOOLEAN :
        /\ CallAs(IF raises THEN "call_raising" ELSE "call", CacheNameOf(Absent), Absent,
                  k, 1, raises)
        /\ UNCHANGED <<recency, threads>> /\ UNCHANGED pvars /\ UNCHANGED backend

DoPersistentCallOrRaise ==
    \E k \in PersistentKeys, fault \in {"no", "compute"} :
        /\ PersistentCall(UserCache, k, 1, fault)
        /\ UNCHANGED <<written, instance, io, units>> /\ UNCHANGED tvars

NextRaise == DoCallOrRaise \/ DoPersistentCallOrRaise

SpecRaise == InitFixed /\ [][NextRaise]_vars

\* ================================================= owls_cache/__init__.py
\* transiently_cached and the TransientCachingBackend of owls_cache/backends.
\* `backend` holds the decorator's arguments and the backend's OrderedDict.

\* The cache-control keyword of a call: not passed, True or False.
KwTrue == "True"
KwFalse == "False"

\* The keyword arguments of a call of the decorated function: the control
\* keyword if it is passed (the other arguments are summed up in k).
KwargsOf(kw) == IF kw = Absent THEN <<>> ELSE ("cache" :> kw)

\* key = hash(repr(args) + repr(kwargs)), within one process: k stands for
\* the positional and the remaining keyword arguments.
WrappedKey(k, kwargs) == <<k, kwargs>>

\* TransientCachingBackend.get: self._cache.get(key, None)
TransientGet(od, key) == OdGet(od, key)

\* TransientCachingBackend.set: make space, then self._cache[key] = value
TransientSet(od, size, key, value) ==
    LET shrunk == Shrink(od, Bounded(size)) IN
    IF shrunk.raised THEN [od |-> shrunk.od, raised |-> TRUE, evicted |-> Len(od) - Len(shrunk.od)]
    ELSE [od |-> OdSetItem(shrunk.od, key, value), raised |-> FALSE,
          evicted |-> Len(od) - Len(shrunk.od)]

\* @transiently_cached(optional = True, default = ..., size = ...)
InitBackend ==
    /\ caches = <<>>
    /\ limits = <<>>
    /\ last = NoOutcome
    /\ recency = <<>>
    /\ threads = [t \in Threads |-> Idle]
    /\ backend \in [optional : {TRUE}, default : BOOLEAN, size : (0..MaxLimit) \cup {DefaultSize},
                    cache : {<<>>}]
    /\ PInit

BackendFrame == UNCHANGED <<caches, limits, recency, threads>> /\ UNCHANGED pvars

\* cache.set(key, value) called on the backend
DoTransientSet ==
    \E k \in Keys, v \in Results :
        /\ LET put == TransientSet(backend.cache, backend.size, WrappedKey(k, <<>>), v) IN
           /\ backend' = [backend EXCEPT !.cache = put.od]
           /\ last' = Outcome("backend_set", Absent, k, FALSE, put.raised, v, put.evicted)
        /\ BackendFrame

\* cache.get(key) called on the backend
DoTransientGet ==
    \E k \in Keys :
        /\ /\ last' = Outcome("backend_get", Absent, k, FALSE, FALSE,
                              TransientGet(backend.cache, WrappedKey(k, <<>>)), 0)
           /\ UNCHANGED backend
        /\ BackendFrame

\* One call wrapper(*args, cache = kw) of the decorated function.
DoWrappedCall ==
    \E kw \in {Absent, KwTrue, KwFalse}, k \in Keys, v \in Results :
        /\ LET do_cache == IF kw = Absent THEN backend.default ELSE kw = KwTrue
               kwargs == IF backend.optional THEN Without(KwargsOf(kw), "cache") ELSE KwargsOf(kw)
               key == WrappedKey(k, kwargs)
               result == TransientGet(backend.cache, key)
               put == TransientSet(backend.cache, backend.size, key, v)
           IN
           IF result # None
           THEN /\ last' = Outcome("wrapped_call", kw, k, FALSE, FALSE, result, 0)
                /\ UNCHANGED backend
           ELSE IF ~(~backend.optional \/ do_cache)
           THEN /\ last' = Outcome("wrapped_call", kw, k, TRUE, FALSE, v, 0)
                /\ UNCHANGED backend
           ELSE /\ backend' = [backend EXCEPT !.cache = put.od]
                /\ last' = Outcome("wrapped_call", kw, k, TRUE, put.raised,
                                   IF put.raised THEN None ELSE v, put.evicted)
        /\ BackendFrame

NextBackend == DoTransientSet \/ DoTransientGet \/ DoWrappedCall

SpecBackend == InitBackend /\ [][NextBackend]_vars

\* ================================================================ claims
\* The named cache a call with cache keyword kw is directed to.
Directed(kw) == IF kw = Absent THEN Name ELSE kw
\* The limit is an integer (not None).
IsBounded(limit) == limit # Unbounded
\* The last operation was a memoized call with caching enabled.
CachedCall(o) == o.op = "call" /\ o.kw # NoCache
\* ... that found its key (hit) / that invoked f and stored the result (miss).
HitCall(o) == CachedCall(o) /\ ~o.computed
MissCall(o) == CachedCall(o) /\ o.computed /\ ~o.raised
\* The entries of od other than the one of key k, in order.
Others(od, k) == SelectSeq(od, LAMBDA e : e.key # k)

\* C1: with the limit of a named cache fixed to an integer N >= 1, no sequence
\* of memoized calls (hits, misses, calls with caching disabled) leaves more
\* than N entries in that cache.
C1_SizeWithinLimit ==
    \A c \in DOMAIN caches :
        LET limit == LimitOf(limits, c) IN
        (IsBounded(limit) /\ limit[1] >= 1) => Len(caches[c]) <= limit[1]

\* A miss on a full cache of limit 2 evicted an entry and left the cache full.
C1_Witness ==
    /\ MissCall(last) /\ last.evicted = 1
    /\ LimitOf(limits, Name) = Bounded(2)
    /\ Len(CacheOf(caches, Name)) = 2

\* C2: a miss on a new key in a cache that holds exactly limit = N entries
\* evicts exactly one entry, the least recently used (read or written) one:
\* afterwards the other N-1 old entries and the new entry are present.
C2_MissEvictsLRU ==
    [][ LET c == Directed(last'.kw)
            old == CacheOf(caches, c)
            new == CacheOf(caches', c)
            limit == LimitOf(limits, c)
            lru == Head(RecencyOf(recency, c))
        IN  ( /\ MissCall(last')
              /\ IsBounded(limit) /\ limit[1] >= 1 /\ Len(old) = limit[1]
              /\ ~OdHas(old, last'.key) )
            => /\ last'.evicted = 1
               /\ OdKeys(new) = (OdKeys(old) \ {lru}) \cup {last'.key}
               /\ \A k \in OdKeys(old) \ {lru} : OdGet(new, k) = OdGet(old, k)
               /\ OdGet(new, last'.key) = last'.ret
      ]_vars

\* C3: a hit on key k returns the stored value and makes k the most recent
\* entry, keeping the order of the others; so a miss on a new key that follows
\* a hit on k in a full cache of limit >= 2 evicts the oldest other entry and
\* keeps k.
C3_HitRefreshesRecency ==
    [][ LET c == Directed(last'.kw)
            old == CacheOf(caches, c)
            new == CacheOf(caches', c)
            limit == LimitOf(limits, c)
        IN  /\ HitCall(last') =>
                /\ OdHas(old, last'.key)
                /\ last'.ret = OdGet(old, last'.key)
                /\ Len(new) = Len(old)
                /\ new[Len(new)] = Entry(last'.key, last'.ret)
                /\ Others(new, last'.key) = Others(old, last'.key)
            /\ ( /\ HitCall(last) /\ last.kw = last'.kw
                 /\ MissCall(last')
                 /\ IsBounded(limit) /\ limit[1] >= 2 /\ Len(old) = limit[1]
                 /\ ~OdHas(old, last'.key) )
               => /\ OdHas(new, last.key)
                  /\ old[1].key # last.key
                  /\ ~OdHas(new, old[1].key)
      ]_vars

\* A hit on the key at the front of a full cache of limit 2 was just served.
C3_Witness ==
    /\ HitCall(last)
    /\ LimitOf(limits, Name) = Bounded(2)
    /\ Len(CacheOf(caches, Name)) = 2
    /\ CacheOf(caches, Name)[2].key = last.key

\* C4: for every value the computation may return, the second of two
\* consecutive calls with the same key into the same named cache does not
\* invoke the computation and returns what the first call returned.
C4_IdempotentHit ==
    [][ ( /\ CachedCall(last) /\ ~last.raised
          /\ CachedCall(last') /\ last'.kw = last.kw /\ last'.key = last.key )
        => (~last'.computed /\ last'.ret = last.ret)
      ]_vars

\* C5: a call with cache = None invokes the computation, returns, and leaves
\* every named cache (entries and order) and every limit as it was, also when
\* the same key is cached.
C5_DisabledBypasses ==
    [][ (last'.op = "call" /\ last'.kw = NoCache)
        => /\ last'.computed /\ ~last'.raised
           /\ caches' = caches
           /\ limits' = limits
      ]_vars

\* A call with cache = None was made for a key that Name has cached.
C5_Witness ==
    /\ last.op = "call" /\ last.kw = NoCache /\ last.computed
    /\ IsHit(OdGet(CacheOf(caches, Name), last.key))

\* C6: under every interleaving of concurrent calls on a named cache with
\* integer limit N >= 1, the cache never holds more than N entries.
C6_ConcurrentSizeWithinLimit ==
    \A c \in DOMAIN caches :
        LET limit == LimitOf(limits, c) IN
        (IsBounded(limit) /\ limit[1] >= 1) => Len(caches[c]) <= limit[1]

\* C7: under every interleaving, a call whose lookup found its key never fails:
\* the entry is still there when its recency is refreshed.
C7_HitNeverFails ==
    \A t \in Threads : threads[t].hit => threads[t].pc # "KeyError"

\* C8: set_cache_limit removes nothing, hits and disabled calls remove nothing,
\* and after the next miss into a cache with integer limit n the cache holds
\* at most n entries.
C8_LimitAppliesOnNextInsert ==
    [][ LET c == Directed(last'.kw)
            limit == LimitOf(limits, c)
        IN  /\ last'.op = "set_cache_limit" => caches' = caches
            /\ (last'.op = "call" /\ ~MissCall(last') /\ ~last'.raised) =>
                  \A n \in CacheNames :
                      OdKeys(CacheOf(caches', n)) = OdKeys(CacheOf(caches, n))
            /\ (CachedCall(last') /\ last'.computed /\ IsBounded(limit)) =>
                  Len(CacheOf(caches', c)) <= limit[1]
      ]_vars

\* The limit was just set below the number of entries the cache holds.
C8_Witness ==
    /\ last.op = "set_cache_limit"
    /\ IsBounded(LimitOf(limits, Name))
    /\ LimitOf(limits, Name)[1] >= 1
    /\ Len(CacheOf(caches, Name)) > LimitOf(limits, Name)[1]

\* C9: a limit below 1 is rejected when it is configured: no named cache ever
\* has an integer limit below 1, and no memoized call fails on its limit.
C9_LimitBelowOneRejected ==
    /\ \A c \in DOMAIN limits : IsBounded(limits[c]) => limits[c][1] >= 1
    /\ ~(last.op = "call" /\ last.raised)

\* C10: a call directed to one named cache leaves every other named cache
\* (existence, entries, order) and its limit as they were, and a key cached
\* elsewhere but not in the cache the call is directed to is a miss.
C10_NamedCachesIndependent ==
    [][ last'.op = "call" =>
          LET x == Directed(last'.kw) IN
          /\ \A y \in CacheNames \ {x} :
                /\ (y \in DOMAIN caches') = (y \in DOMAIN caches)
                /\ CacheOf(caches', y) = CacheOf(caches, y)
                /\ (y \in DOMAIN limits') = (y \in DOMAIN limits)
                /\ LimitOf(limits', y) = LimitOf(limits, y)
          /\ DOMAIN caches' \subseteq CacheNames
          /\ (x # NoCache /\ ~OdHas(CacheOf(caches, x), last'.key)) => last'.computed
      ]_vars

\* A call into "abc" missed on a key that Name has cached.
C10_Witness ==
    /\ last.op = "call" /\ last.kw = "abc" /\ last.computed /\ ~last.raised
    /\ IsHit(OdGet(CacheOf(caches, Name), last.key))
    /\ Len(CacheOf(caches, "abc")) >= 1

\* C11: after clear_transient_caches() every named cache is empty, and the
\* next memoized call with caching enabled, whatever its key and cache, is a
\* miss: it invokes the computation.
C11_ClearEmptiesEveryCache ==
    [][ /\ last'.op = "clear" =>
              \A n \in CacheNames : CacheOf(caches', n) = <<>>
        /\ (last.op = "clear" /\ CachedCall(last')) => last'.computed
      ]_vars

\* Both named caches have been used, and the caches were just cleared.
C11_Witness ==
    /\ last.op = "clear"
    /\ \A n \in CacheNames : n \in DOMAIN limits /\ CacheOf(caches, n) = <<>>

\* C12: while the limit of a named cache is None, no call and no change of
\* limit removes a key from it: a call evicts nothing, does not fail, and a
\* miss adds its key.
C12_UnboundedNeverEvicts ==
    [][ LET old == CacheOf(caches, Name)
            new == CacheOf(caches', Name)
        IN  (last'.op # "clear" /\ LimitOf(limits, Name) = Unbounded)
            => /\ OdKeys(old) \subseteq OdKeys(new)
               /\ last'.evicted = 0
               /\ ~last'.raised
               /\ (CachedCall(last') /\ last'.computed) => OdHas(new, last'.key)
      ]_vars

\* An unlimited cache took a further key while it held more entries than any
\* integer limit configured in the model.
C12_Witness ==
    /\ MissCall(last)
    /\ LimitOf(limits, Name) = Unbounded
    /\ Len(CacheOf(caches, Name)) > MaxLimit

\* A persistently memoized call was made with no cache active: cache = None,
\* or no keyword while the global cache is unset.
Uncached(o, global) ==
    o.op = "call" /\ (o.kw = NoCache \/ (o.kw = Absent /\ global = NoCache))

\* C13: with no persistent cache active, a persistently memoized call invokes
\* the computation and returns its result, and calls neither key nor get nor
\* set on any cache: nothing stored anywhere changes.
C13_UncachedCallsNoBackend ==
    [][ Uncached(plast', persistent_cache)
        => /\ plast'.computed /\ plast'.raised = "no"
           /\ plast'.ret = plast'.fval
           /\ plast'.calls = <<>>
           /\ store' = store
      ]_vars

\* A call without the keyword was made while the global cache is unset.
C13_Witness ==
    /\ plast.op = "call" /\ plast.kw = Absent /\ persistent_cache = NoCache
    /\ plast.computed /\ plast.ret = 1

\* C14: the cache keyword of a call takes precedence over the global cache:
\* the call uses the keyword's cache; with cache = None it is uncached (the
\* computation runs and its value is returned, no cache method is called)
\* even while the global cache holds a value for the key; and no call changes
\* the global cache.
C14_KeywordOverridesGlobal ==
    [][ plast'.op = "call" =>
          /\ persistent_cache' = persistent_cache
          /\ plast'.kw # Absent => plast'.cache = plast'.kw
          /\ plast'.kw = Absent => plast'.cache = persistent_cache
          /\ plast'.kw = NoCache =>
                /\ plast'.computed /\ plast'.raised = "no"
                /\ plast'.ret = plast'.fval
                /\ plast'.calls = <<>>
                /\ store' = store
      ]_vars

\* A call with cache = None computed while the global cache held a value for
\* its key.
C14_Witness ==
    /\ plast.op = "call" /\ plast.kw = NoCache /\ plast.computed
    /\ persistent_cache = UserCache
    /\ plast.key \in DOMAIN store[UserCache]
    /\ store[UserCache][plast.key] = Dumps(1)

\* C15: with a FileSystemPersistentCache active, a persistently memoized call
\* completes without error, and the second of two such calls with the same
\* arguments does not invoke the computation and returns the same value.
C15_FileSystemHitOnSecondCall ==
    [][ (plast'.op = "call" /\ plast'.cache = FsCache)
        => /\ plast'.raised = "no"
           /\ ( /\ plast.op = "call" /\ plast.cache = FsCache
                /\ plast.key = plast'.key /\ plast.computed /\ plast.ret # None )
              => (~plast'.computed /\ plast'.ret = plast.ret)
      ]_vars

\* C16: every shipped persistent cache accepts the wrapper's call
\* cache.key(name, mapped arguments): key returns without error, so the call
\* goes on to get (and, with the Redis cache, to set on a miss).
C16_KeyAcceptsWrapperCall ==
    (plast.op = "call" /\ plast.cache \in ShippedCaches)
    => /\ plast.raised # "TypeError"
       /\ Len(plast.calls) >= 2
       /\ (plast.cache = RedisCache /\ plast.fault = "no" /\ plast.computed)
             => plast.calls = <<"key", "get", "set">>

\* C17: an error raised by get or set of the active cache leaves the call as
\* that error after one attempt: nothing is called after the failed method,
\* a failed get is not followed by the computation, and no value is returned.
C17_BackendErrorPropagates ==
    [][ plast'.op = "call" =>
          /\ plast'.fault = "get" =>
                /\ plast'.raised = "ConnectionError"
                /\ plast'.calls = <<"key", "get">>
                /\ ~plast'.computed
                /\ store' = store
          /\ plast'.fault = "set" =>
                /\ plast'.raised = "ConnectionError"
                /\ plast'.calls = <<"key", "get", "set">>
                /\ store' = store
      ]_vars

\* The server was down at get, in a call for a key that the cache holds.
C17_Witness ==
    /\ plast.op = "call" /\ plast.fault = "get"
    /\ plast.raised = "ConnectionError"
    /\ plast.key \in DOMAIN store[plast.cache]

\* C18: get of a FileSystemPersistentCache or RedisPersistentCache on a key
\* whose payload exists but cannot be deserialized returns None and does not
\* raise.
C18_DamagedPayloadIsAbsent ==
    LET st == store[plast.cache] IN
    ( /\ plast.op = "get" /\ plast.cache \in {FsCache, RedisCache}
      /\ plast.key \in DOMAIN st
      /\ Unpicklable(st[plast.key]) )
    => (plast.raised = "no" /\ plast.ret = None)

\* The writer is replacing a complete value of key k and has not closed the file.
Overwriting(w, k) ==
    w.pc \in {"opened", "flushed"} /\ w.key = k /\ ~Unpicklable(w.old)

\* C19: a get of a key made while set is overwriting the complete value of
\* that key returns the old or the new value: it neither raises nor finds
\* nothing nor part of a value.
C19_OverwriteIsAtomic ==
    [][ ( /\ io["reader"].pc = "load" /\ io'["reader"].pc # "load"
          /\ Overwriting(io["writer"], io["reader"].key) )
        => /\ io'["reader"].pc = "returned"
           /\ io'["reader"].ret \in {Loads(io["writer"].old), io["writer"].value}
      ]_vars

\* C20: get of a key returns, without raising, the value that the last set on
\* that key stored, also when the cache object was re-created in between
\* (restart of the process, reconnection to the server).
C20_SetThenGetRoundTrip ==
    [][ (plast'.op = "get" /\ plast'.key \in DOMAIN written)
        => /\ plast'.raised = "no"
           /\ plast'.ret = written[plast'.key].value
      ]_vars

\* C21: the association of a persistent cache is per thread: what a thread
\* finds in force (through get_persistent_cache or a memoized call) is what
\* that thread itself set last, whatever the other threads set.
C21_AssociationPerThread ==
    \A t \in Threads : units[t].seen = units[t].own

\* C22: once a test case that associated a persistent cache is left, by
\* whatever path, no cache is associated.
C22_RegionExitClears ==
    units[Runner].phase = "left" => persistent_cache = NoCache

\* The prefix the constructor was given (None when it was given none).
GivenPrefix(self) ==
    IF "prefix" \in DOMAIN self.given THEN self.given["prefix"] ELSE NoPrefix

\* C23: a RedisPersistentCache re-created from its pickled state keeps the
\* constructor arguments and the prefix, has a new client made from these
\* arguments, returns for every input the key the original returns (the
\* prefix as formatted once from the constructor's argument), and its get
\* and set reach the server.
C23_UnpickledRedisCacheWorks ==
    [][ /\ instance'.gen # instance.gen =>
              /\ instance'.args = instance.args
              /\ instance'.kwargs = instance.kwargs
              /\ instance'.client # instance.client
              /\ instance'.client = StrictRedis(instance.args, instance.kwargs, instance'.gen)
              /\ \A k \in PersistentKeys :
                    RedisKeyBy(instance'.prefix, <<Name, k, <<>>>>)
                       = RedisKeyBy(instance.prefix, <<Name, k, <<>>>>)
        /\ plast'.op = "key" =>
              plast'.ret = <<FormatPrefix(GivenPrefix(instance)), Name, plast'.key, <<>>>>
        /\ plast'.op \in {"get", "set"} => plast'.raised # "ConnectionError"
        /\ (plast'.op = "get" /\ plast'.key \in DOMAIN store[RedisCache]
               /\ ~Unpicklable(store[RedisCache][plast'.key]))
              => plast'.ret = Loads(store[RedisCache][plast'.key])
      ]_vars

\* The re-created cache, constructed with prefix 'testing', read a stored value.
C23_Witness ==
    /\ instance.gen >= 1 /\ GivenPrefix(instance) = <<"testing">>
    /\ plast.op = "get" /\ plast.ret = 1

\* The entry of key k in the backend's cache, as the wrapper keys it.
Cached(od, k) == OdHas(od, WrappedKey(k, <<>>))

\* C24: a call of a function decorated with optional = True whose control
\* keyword is False invokes the function, returns its result and stores
\* nothing, also when its arguments are cached.
C24_ControlFalseBypasses ==
    [][ (last'.op = "wrapped_call" /\ last'.kw = KwFalse /\ backend.optional)
        => /\ last'.computed /\ ~last'.raised
           /\ backend' = backend
      ]_vars

\* C25: with optional = True and default = True, a call that follows a call
\* which cached its result, with the same remaining arguments, is a hit
\* whether or not either call passes the control keyword: the function is not
\* invoked and the cached value is returned.
C25_ControlKeywordMasked ==
    [][ ( /\ backend.optional /\ backend.default
          /\ last.op = "wrapped_call" /\ last.kw # KwFalse
          /\ last.computed /\ ~last.raised /\ Cached(backend.cache, last.key)
          /\ last'.op = "wrapped_call" /\ last'.key = last.key )
        => (~last'.computed /\ last'.ret = last.ret)
      ]_vars

\* C28: TransientCachingBackend.get on a present key makes its entry the most
\* recent one and changes nothing else, so that the set of a new key into the
\* full cache which follows it keeps that key.
C28_BackendGetRefreshes ==
    [][ LET old == backend.cache
            new == backend'.cache
            key == WrappedKey(last'.key, <<>>)
        IN  /\ (last'.op = "backend_get" /\ OdHas(old, key)) =>
                /\ last'.ret = OdGet(old, key)
                /\ new[Len(new)].key = key
                /\ Others(new, key) = Others(old, key)
            /\ ( /\ last.op = "backend_get" /\ Cached(old, last.key)
                 /\ last'.op = "backend_set" /\ ~OdHas(old, key)
                 /\ backend.size >= 2 /\ Len(old) = backend.size )
               => Cached(new, last.key)
      ]_vars

\* C29: TransientCachingBackend.set on a key that is present replaces its
\* value, leaves the entry the most recent one and evicts no other entry.
C29_OverwriteKeepsOthers ==
    [][ LET old == backend.cache
            new == backend'.cache
            key == WrappedKey(last'.key, <<>>)
        IN  (last'.op = "backend_set" /\ OdHas(old, key) /\ backend.size >= 1)
            => /\ ~last'.raised
               /\ new[Len(new)] = Entry(key, last'.ret)
               /\ Others(new, key) = Others(old, key)
      ]_vars

\* C26: the key a cache derives for a call is the same whenever it is derived:
\* by another instance of the cache and in another run of the process.
C26_KeyDerivationStable ==
    [][ ( /\ plast.op = "key" /\ plast'.op = "key"
          /\ plast'.cache = plast.cache /\ plast'.key = plast.key )
        => (plast'.raised = plast.raised /\ plast'.ret = plast.ret)
      ]_vars

\* C27: a persistently memoized call with an active cache derives the key and
\* calls get with it; on a miss it invokes the function once and calls set
\* once with that key and the result, on a hit it does neither.
C27_KeyGetThenComputeSet ==
    [][ (plast' # plast /\ plast'.op = "call" /\ plast'.cache # NoCache /\ plast'.fault = "no")
        => LET cache == plast'.cache
               calls == plast'.calls
           IN  /\ Len(calls) >= 2 /\ calls[1] = "key" /\ calls[2] = "get"
               /\ IF plast'.computed
                  THEN /\ calls = <<"key", "get", "set">>
                       /\ plast'.ret = plast'.fval
                       /\ \E key \in DOMAIN store'[cache] :
                              store'[cache] = Put(store[cache], key, Dumps(plast'.fval))
                  ELSE /\ calls = <<"key", "get">>
                       /\ store' = store
      ]_vars

\* C30: what a memoized call returns was computed by the function called:
\* f and g, storing into the same named cache under equal mapper keys, never
\* return each other's value.
C30_HitComputedBySameFunction ==
    /\ last.op = "call" => last.ret \in Results
    /\ last.op = "call_g" => last.ret \in GResults

\* C31: when the computation raises in a memoized call that missed, the error
\* leaves the call and nothing is stored or evicted: every transient cache
\* keeps its entries in their order, and a persistent call does not invoke set.
C31_RaisingMissStoresNothing ==
    [][ /\ (last' # last /\ last'.op = "call_raising" /\ last'.computed)
           => /\ last'.raised /\ last'.evicted = 0
              /\ \A name \in DOMAIN caches' : caches'[name] = CacheOf(caches, name)
        /\ (plast' # plast /\ plast'.fault = "compute")
           => /\ plast'.raised # "no"
              /\ \A i \in 1..Len(plast'.calls) : plast'.calls[i] # "set"
              /\ store' = store
      ]_vars

\* A raising miss on a full cache of f, and a raising persistent miss beside
\* a stored entry.
C31_Witness ==
    /\ last.op = "call_raising" /\ last.computed /\ last.raised
    /\ IsBounded(LimitOf(limits, Name)) /\ Len(CacheOf(caches, Name)) >= 1
    /\ Len(CacheOf(caches, Name)) = LimitOf(limits, Name)[1]
    /\ plast.fault = "compute" /\ plast.computed /\ plast.calls = <<"key", "get">>
    /\ store[UserCache] # <<>>
====
